---------------------------- MODULE Spec2Model ----------------------------
(***************************************************************************)
(* A model of pandas_latex (src/src/pandas_latex/__init__.py): the LaTeX   *)
(* escaper, the column-spec builder, the escape-policy resolver and the    *)
(* lazy line generator TableFormatter.format().                            *)
(*                                                                         *)
(* Representation.  A Python str that the code inspects character by       *)
(* character (the argument of escape(), a label, a cell) is a sequence of  *)
(* one-character strings; a str that the code only builds by              *)
(* concatenation (an output line, a rule, the column spec) is a TLA+       *)
(* string built with \o.  Str() is the step from the first to the second.  *)
(* The Python set _to_escape, which holds Escape members and column labels *)
(* side by side, is a record of two sets, one per type of item.            *)
(***************************************************************************)
EXTENDS Integers, Sequences, FiniteSets, TLC

VARIABLES
    cfg,        \* the attributes of the TableFormatter instance
    to_escape,  \* TableFormatter._to_escape: NoneVal or Some(resolved set)
    df,         \* the DataFrame of the current format() pass
    pc,         \* where the generator of the current pass is suspended
    k,          \* index inside the `yield from` / `for` the generator is in
    loc,        \* the generator's locals (header, repeat_header, df_escaped)
    out,        \* the lines the caller has received from the current pass
    arg,        \* input of the pure-function specifications
    res         \* result of the pure-function specifications

vars == <<cfg, to_escape, df, pc, k, loc, out, arg, res>>

----------------------------------------------------------------------------
(* Bounds of the model.                                                    *)

MaxLen == 3     \* longest text given to escape()
MaxCols == 2    \* most data columns of a dataset
MaxRows == 2    \* most rows of a dataset

----------------------------------------------------------------------------
(* Small helpers.                                                          *)

NoneVal == <<>>
Some(v) == <<v>>

Range(s) == {s[i] : i \in 1..Len(s)}

SeqsUpTo(S, n) == UNION {[1..m -> S] : m \in 0..n}

RECURSIVE Str(_)
\* str built from its characters
Str(chars) == IF chars = <<>> THEN "" ELSE Head(chars) \o Str(Tail(chars))

----------------------------------------------------------------------------
(* escape()                                                                *)

\* the character class of _escape_re
SpecialChars == {"#", "$", "%", "&", "_", "{", "}"}

Backslash == "\\"

\* the pattern without its lookbehind (?<!\\)
EscapeReMatchesNoLookbehind(text, i) == text[i] \in SpecialChars

\* _escape_re matches at (1-based) position i of text
EscapeReMatches(text, i) ==
    /\ text[i] \in SpecialChars
    /\ ~(i > 1 /\ text[i - 1] = Backslash)

\* _escape_repl: r'\{}'.format(match.groups()[0])
EscapeRepl(c) == <<Backslash, c>>

RECURSIVE EscapeSub(_, _)
\* _escape_re.sub(_escape_repl, text), scanning from position i
EscapeSub(text, i) ==
    IF i > Len(text) THEN <<>>
    ELSE (IF EscapeReMatches(text, i) THEN EscapeRepl(text[i]) ELSE <<text[i]>>)
         \o EscapeSub(text, i + 1)

\* escape(text, go) for a text that is not a tuple
escape(text, go) == IF go THEN EscapeSub(text, 1) ELSE text

----------------------------------------------------------------------------
(* line(), _rule()                                                         *)

RECURSIVE JoinAmp(_)
\* ' & '.join(entries)
JoinAmp(entries) ==
    IF entries = <<>> THEN ""
    ELSE IF Len(entries) = 1 THEN Str(entries[1])
    ELSE Str(entries[1]) \o " & " \o JoinAmp(Tail(entries))

line(entries) == JoinAmp(entries) \o " \\\\"

rule(booktabs, which) ==
    IF booktabs THEN "\\" \o which \o "rule" ELSE "\\hline"

----------------------------------------------------------------------------
(* _colspec()                                                              *)

\* A coltype is [isstr |-> it is a str, toks |-> its characters or elements].

RECURSIVE Repeat(_, _)
Repeat(t, n) == IF n = 0 THEN <<>> ELSE <<t>> \o Repeat(t, n - 1)

\* the piece with the rule looked up one position to the right
ColspecPieceOffByOne(ctype, n, clines) ==
    (IF (n + 1) \in clines THEN "|" ELSE "") \o ctype

\* ('|' if n in self.clines else '') + ctype
ColspecPiece(ctype, n, clines) ==
    (IF n \in clines THEN "|" ELSE "") \o ctype

RECURSIVE ColspecLoop(_, _, _)
\* for n, ctype in enumerate(coltype): the pieces appended to result
ColspecLoop(toks, clines, n) ==
    IF n >= Len(toks) THEN <<>>
    ELSE <<ColspecPiece(toks[n + 1], n, clines)>>
         \o ColspecLoop(toks, clines, n + 1)

\* _colspec: [raised, pieces]; the returned str is Str(pieces)
colspec(coltype, clines, n_cols) ==
    IF coltype.isstr /\ Len(coltype.toks) = 2
    THEN [raised |-> FALSE,
          pieces |-> ColspecLoop(<<coltype.toks[1]>> \o Repeat(coltype.toks[2], n_cols),
                                 clines, 0)]
    ELSE IF ~coltype.isstr /\ Len(coltype.toks) # n_cols + 1
    THEN [raised |-> TRUE, pieces |-> <<>>]
    ELSE [raised |-> FALSE, pieces |-> ColspecLoop(coltype.toks, clines, 0)]

----------------------------------------------------------------------------
(* class Escape(Flag)                                                      *)

\* A flag value is the set of the names of the members it holds.
Members == {"NAME", "COLUMNS", "INDEX", "CELLS"}
NAME == {"NAME"}
COLUMNS == {"COLUMNS"}
INDEX == {"INDEX"}
CELLS == {"CELLS"}
ALL == NAME \cup COLUMNS \cup INDEX \cup CELLS

\* Escape.unpack: the members v with `v in value`, ALL itself left out
unpack(value) == {v \in Members : {v} \subseteq value}

----------------------------------------------------------------------------
(* The datasets.                                                           *)

Digit(i) == <<"0", "1", "2", "3", "4", "5", "6", "7", "8", "9">>[i + 1]

ColLabel(j) == <<"c", "_", Digit(j)>>
RowLabel(i) == <<"r", "_", Digit(i)>>
Cell(i, j) == <<Digit(i), "%", Digit(j)>>
DfName == <<"n", "_">>

\* a DataFrame with C data columns and R rows
MkDf(C, R) ==
    [name |-> DfName,
     columns |-> [j \in 1..C |-> ColLabel(j)],
     index |-> [i \in 1..R |-> RowLabel(i)],
     cells |-> [i \in 1..R |-> [j \in 1..C |-> Cell(i, j)]]]

DataFrames == {MkDf(C, R) : C \in 1..MaxCols, R \in 0..MaxRows}

NoDf == MkDf(0, 0)

----------------------------------------------------------------------------
(* TableFormatter._escape(): the resolution of self.escape                 *)

\* An escape selector, after `esc = iter(self.escape)` or `[self.escape]`, is
\* [flags |-> its Escape items, names |-> its other items].

\* the `if self._to_escape is None:` block: ValueError, or the set stored
Resolve(sel, columns) ==
    LET unpacked == UNION {unpack(e) : e \in sel.flags}
        discard_cells == sel.names # {}
        flags == IF discard_cells THEN unpacked \ {"CELLS"} ELSE unpacked
    IN  IF \E e \in sel.names : e \notin Range(columns)
        THEN [raised |-> TRUE, set |-> NoneVal]
        ELSE [raised |-> FALSE,
              set |-> Some([flags |-> flags,
                            cols |-> sel.names \cup
                                     (IF "CELLS" \in flags
                                      THEN Range(columns) ELSE {})])]

\* go, for `which` an Escape member: which in self._to_escape
GoFlag(cache, which) == which \in cache[1].flags

\* go, for a column (which is None): value.name in self._to_escape
GoColumn(cache, label) == label \in cache[1].cols

----------------------------------------------------------------------------
(* header(), row(), _header(), _row(), _optional_lines()                   *)

\* _lines(value), for a value [isstr |-> it is a str, v |-> the list, or the
\* str as v[1]]
Lines(value) == IF value.isstr THEN <<value.v[1]>> ELSE value.v

\* the default header callback
DefaultHeader(name, columns) == line(<<name>> \o columns)

\* a user's header callback that returns a list of two lines
TwoLineHeader(name, columns) == <<line(<<name>> \o columns), "\\cmidrule{2-3}">>

\* _header(df) once _to_escape is set: the header lines
HeaderLines(c, cache, d) ==
    LET df_name == escape(d.name, GoFlag(cache, "NAME"))
        df_cols == [j \in 1..Len(d.columns) |->
                        escape(d.columns[j], GoFlag(cache, "COLUMNS"))]
    IN  IF c.header = "default"
        THEN Lines([isstr |-> TRUE, v |-> <<DefaultHeader(df_name, df_cols)>>])
        ELSE Lines([isstr |-> FALSE, v |-> TwoLineHeader(df_name, df_cols)])

\* df.apply(lambda column: self._escape(None, column))
EscapeData(cache, d) ==
    [i \in 1..Len(d.cells) |->
        [j \in 1..Len(d.columns) |->
            escape(d.cells[i][j], GoColumn(cache, d.columns[j]))]]

\* _row(df_row) with the default row callback: one line
RowLine(cache, d, escaped, i) ==
    line(<<escape(d.index[i], GoFlag(cache, "INDEX"))>> \o escaped[i])

\* r'\begin{%s}{%s}' % (self.env, spec)
BeginLine(env, spec) == "\\begin{" \o env \o "}{" \o spec \o "}"

\* r'\end{%s}' % self.env
EndLine(env) == "\\end{" \o env \o "}"

----------------------------------------------------------------------------
(* The formatter instances: the TableFormatter constructor.                       *)

StrCol(toks) == [isstr |-> TRUE, toks |-> toks]
ListCol(toks) == [isstr |-> FALSE, toks |-> toks]

Sel(flags, names) == [flags |-> flags, names |-> names]

\* escape=..., and what formatter.escape is assigned between passes
Selectors ==
    {Sel({ALL}, {}),                    \* Escape.ALL, the class default
     Sel({ALL \ COLUMNS}, {}),          \* ALL ^ COLUMNS
     Sel({NAME}, {}),                   \* [NAME]
     Sel({}, {ColLabel(1)}),            \* ['c_1']
     Sel({ALL}, {ColLabel(2)})}         \* [ALL, 'c_2']

\* no_escape=...
NoEscapes == {Sel({}, {}), Sel({COLUMNS}, {ColLabel(1)})}

\* coltype=...: the class default 'lc', and a tuple of three specifiers
ColTypes == {StrCol(<<"l", "c">>), ListCol(<<"r", "c", "l">>)}

NoLines == [isstr |-> FALSE, v |-> <<>>]
OneLine(text) == [isstr |-> TRUE, v |-> <<text>>]

\* preamble=..., before_header=..., before_repeat_header=...
Layouts ==
    {[preamble |-> NoLines, before_header |-> NoLines,
      before_repeat_header |-> NoLines],
     [preamble |-> OneLine("% preamble"), before_header |-> NoLines,
      before_repeat_header |-> NoLines],
     [preamble |-> [isstr |-> FALSE, v |-> <<"% one", "% two">>],
      before_header |-> OneLine("% before_header"),
      before_repeat_header |-> OneLine("% before_repeat_header")]}

Configs ==
    {[env |-> e, coltype |-> ct, clines |-> {}, booktabs |-> b, escape |-> s,
      no_escape |-> ne, preamble |-> l.preamble,
      before_header |-> l.before_header,
      before_repeat_header |-> l.before_repeat_header, header |-> h] :
        e \in {"tabular", "longtable"}, ct \in ColTypes, b \in BOOLEAN,
        s \in Selectors, ne \in NoEscapes, l \in Layouts,
        h \in {"default", "two_lines"}}

----------------------------------------------------------------------------
(* TableFormatter.format(): one action per resumption of the generator.    *)

InFlight ==
    {"start", "preamble", "begin", "before_header", "top", "header", "mid",
     "endfirsthead", "before_repeat_header", "top2", "header2", "mid2",
     "endhead", "footrule", "endfoot", "row", "bottom", "end", "blank"}

EmptyLoc == [header |-> <<>>, repeat_header |-> <<>>, df_escaped |-> <<>>]

\* the generator hands `l` to its caller and is suspended at `at`
Yield(l, at, idx) ==
    /\ out' = Append(out, l)
    /\ pc' = at
    /\ k' = idx

\* the exception leaves the generator, which is finished
Raise ==
    /\ pc' = "raised"
    /\ UNCHANGED <<out, k>>

Init ==
    /\ cfg \in Configs
    /\ to_escape = NoneVal
    /\ df = NoDf
    /\ pc = "idle"
    /\ k = 0
    /\ loc = EmptyLoc
    /\ out = <<>>
    /\ arg = NoneVal
    /\ res = NoneVal

\* formatter.format(d): the generator is created, none of its body runs
CallFormat ==
    /\ pc \notin InFlight
    /\ \E d \in DataFrames : df' = d
    /\ pc' = "start"
    /\ k' = 0
    /\ loc' = EmptyLoc
    /\ out' = <<>>
    /\ UNCHANGED <<cfg, to_escape, arg, res>>

\* yield from self._optional_lines('preamble')
NextPreamble ==
    /\ pc \in {"start", "preamble"}
    /\ k < Len(Lines(cfg.preamble))
    /\ Yield(Lines(cfg.preamble)[k + 1], "preamble", k + 1)
    /\ UNCHANGED <<cfg, to_escape, df, loc, arg, res>>

\* yield r'\begin{%s}{%s}' % (self.env, self._colspec(df))
YieldBegin ==
    /\ pc \in {"start", "preamble"}
    /\ k = Len(Lines(cfg.preamble))
    /\ LET spec == colspec(cfg.coltype, cfg.clines, Len(df.columns))
       IN  IF spec.raised THEN Raise
           ELSE Yield(BeginLine(cfg.env, Str(spec.pieces)), "begin", 0)
    /\ UNCHANGED <<cfg, to_escape, df, loc, arg, res>>

\* yield from self._optional_lines('before_header')
NextBeforeHeader ==
    /\ pc \in {"begin", "before_header"}
    /\ k < Len(Lines(cfg.before_header))
    /\ Yield(Lines(cfg.before_header)[k + 1], "before_header", k + 1)
    /\ UNCHANGED <<cfg, to_escape, df, loc, arg, res>>

\* header = self._header(df); for a longtable header, repeat_header =
\* tee(self._header(df), 2); yield self._rule('top')
YieldTop ==
    /\ pc \in {"begin", "before_header"}
    /\ k = Len(Lines(cfg.before_header))
    /\ LET r == IF to_escape = NoneVal
                THEN Resolve(cfg.escape, df.columns)
                ELSE [raised |-> FALSE, set |-> to_escape]
       IN  IF r.raised
           THEN Raise /\ UNCHANGED <<to_escape, loc>>
           ELSE /\ to_escape' = r.set
                /\ loc' = [loc EXCEPT
                       !.header = HeaderLines(cfg, r.set, df),
                       !.repeat_header = IF cfg.env = "longtable"
                                         THEN HeaderLines(cfg, r.set, df)
                                         ELSE <<>>]
                /\ Yield(rule(cfg.booktabs, "top"), "top", 0)
    /\ UNCHANGED <<cfg, df, arg, res>>

\* yield from header
NextHeaderLine ==
    /\ pc \in {"top", "header"}
    /\ k < Len(loc.header)
    /\ Yield(loc.header[k + 1], "header", k + 1)
    /\ UNCHANGED <<cfg, to_escape, df, loc, arg, res>>

\* yield self._rule('mid')
YieldMid ==
    /\ pc \in {"top", "header"}
    /\ k = Len(loc.header)
    /\ Yield(rule(cfg.booktabs, "mid"), "mid", 0)
    /\ UNCHANGED <<cfg, to_escape, df, loc, arg, res>>

\* if self.env == 'longtable': yield r'\endfirsthead'
YieldEndFirstHead ==
    /\ pc = "mid"
    /\ cfg.env = "longtable"
    /\ Yield("\\endfirsthead", "endfirsthead", 0)
    /\ UNCHANGED <<cfg, to_escape, df, loc, arg, res>>

\* yield from self._optional_lines('before_repeat_header')
NextBeforeRepeatHeader ==
    /\ pc \in {"endfirsthead", "before_repeat_header"}
    /\ k < Len(Lines(cfg.before_repeat_header))
    /\ Yield(Lines(cfg.before_repeat_header)[k + 1], "before_repeat_header", k + 1)
    /\ UNCHANGED <<cfg, to_escape, df, loc, arg, res>>

\* yield self._rule('top'), the second one
YieldTop2 ==
    /\ pc \in {"endfirsthead", "before_repeat_header"}
    /\ k = Len(Lines(cfg.before_repeat_header))
    /\ Yield(rule(cfg.booktabs, "top"), "top2", 0)
    /\ UNCHANGED <<cfg, to_escape, df, loc, arg, res>>

\* yield from repeat_header
NextRepeatHeaderLine ==
    /\ pc \in {"top2", "header2"}
    /\ k < Len(loc.repeat_header)
    /\ Yield(loc.repeat_header[k + 1], "header2", k + 1)
    /\ UNCHANGED <<cfg, to_escape, df, loc, arg, res>>

\* yield self._rule('mid'), the second one
YieldMid2 ==
    /\ pc \in {"top2", "header2"}
    /\ k = Len(loc.repeat_header)
    /\ Yield(rule(cfg.booktabs, "mid"), "mid2", 0)
    /\ UNCHANGED <<cfg, to_escape, df, loc, arg, res>>

\* yield r'\endhead'
YieldEndHead ==
    /\ pc = "mid2"
    /\ Yield("\\endhead", "endhead", 0)
    /\ UNCHANGED <<cfg, to_escape, df, loc, arg, res>>

\* the bottom rule after the rows with its `if` left out
BottomAfterRowsAlways(c) == TRUE

\* the bottom rule after the rows with `==` for `!=`
BottomAfterRowsInverted(c) == c.env = "longtable"

\* `if self.env != 'longtable':` before the bottom rule that follows the rows
BottomAfterRows(c) == c.env # "longtable"

\* yield self._rule('bottom'), in the foot of a longtable
YieldFootRule ==
    /\ pc = "endhead"
    /\ Yield(rule(cfg.booktabs, "bottom"), "footrule", 0)
    /\ UNCHANGED <<cfg, to_escape, df, loc, arg, res>>

\* yield r'\endfoot'
YieldEndFoot ==
    /\ pc = "footrule"
    /\ Yield("\\endfoot", "endfoot", 0)
    /\ UNCHANGED <<cfg, to_escape, df, loc, arg, res>>

\* the generator is suspended just before `df_escaped = ...`
BeforeRows == IF pc = "mid" THEN cfg.env # "longtable" ELSE pc = "endfoot"

\* the generator is in, or just before, `for _, r in df_escaped.iterrows():`
AtRows == IF pc = "row" THEN TRUE ELSE BeforeRows

\* df_escaped, computed when the generator leaves the header
DfEscaped == IF pc = "row" THEN loc.df_escaped ELSE EscapeData(to_escape, df)

\* for _, r in df_escaped.iterrows(): yield from self._row(r)
NextRow ==
    /\ AtRows
    /\ k < Len(df.index)
    /\ loc' = [loc EXCEPT !.df_escaped = DfEscaped]
    /\ Yield(RowLine(to_escape, df, DfEscaped, k + 1), "row", k + 1)
    /\ UNCHANGED <<cfg, to_escape, df, arg, res>>

\* if self.env != 'longtable': yield self._rule('bottom')
YieldBottom ==
    /\ AtRows
    /\ k = Len(df.index)
    /\ BottomAfterRows(cfg)
    /\ loc' = [loc EXCEPT !.df_escaped = DfEscaped]
    /\ Yield(rule(cfg.booktabs, "bottom"), "bottom", 0)
    /\ UNCHANGED <<cfg, to_escape, df, arg, res>>

\* yield r'\end{%s}' % self.env
YieldEnd ==
    /\ IF pc = "bottom" THEN TRUE
       ELSE AtRows /\ k = Len(df.index) /\ ~BottomAfterRows(cfg)
    /\ loc' = [loc EXCEPT !.df_escaped = IF pc = "bottom" THEN @ ELSE DfEscaped]
    /\ Yield(EndLine(cfg.env), "end", 0)
    /\ UNCHANGED <<cfg, to_escape, df, arg, res>>

\* yield ''
YieldBlank ==
    /\ pc = "end"
    /\ Yield("", "blank", 0)
    /\ UNCHANGED <<cfg, to_escape, df, loc, arg, res>>

\* the next() after the last line: self._to_escape = None, StopIteration
Finish ==
    /\ pc = "blank"
    /\ to_escape' = NoneVal
    /\ pc' = "done"
    /\ UNCHANGED <<cfg, df, k, loc, out, arg, res>>

\* the caller stops consuming: the generator is closed (or collected),
\* GeneratorExit is thrown at its yield and nothing in format() catches it
Close ==
    /\ pc \in InFlight
    /\ pc' = "closed"
    /\ UNCHANGED <<cfg, to_escape, df, k, loc, out, arg, res>>

\* formatter.escape = sel, between two passes
SetEscape ==
    /\ pc \notin InFlight
    /\ \E sel \in Selectors :
          /\ sel # cfg.escape
          /\ cfg' = [cfg EXCEPT !.escape = sel]
    /\ UNCHANGED <<to_escape, df, pc, k, loc, out, arg, res>>

Next ==
    \/ CallFormat
    \/ NextPreamble
    \/ YieldBegin
    \/ NextBeforeHeader
    \/ YieldTop
    \/ NextHeaderLine
    \/ YieldMid
    \/ YieldEndFirstHead
    \/ NextBeforeRepeatHeader
    \/ YieldTop2
    \/ NextRepeatHeaderLine
    \/ YieldMid2
    \/ YieldEndHead
    \/ YieldFootRule
    \/ YieldEndFoot
    \/ NextRow
    \/ YieldBottom
    \/ YieldEnd
    \/ YieldBlank
    \/ Finish
    \/ Close
    \/ SetEscape

Spec == Init /\ [][Next]_vars

\* the callers that consume every pass to its end or to its exception: under
\* this specification C3_CacheClearedWhenPassEnds, C4_EscapedExactlyAsSelected
\* and C5_UnknownTargetRaises hold, so each of them fails under Spec only
\* through a pass that was abandoned
SpecConsumed == Init /\ [][Next /\ pc' # "closed"]_vars

----------------------------------------------------------------------------
(* escape() on its own: every text up to MaxLen, escaped once and again.   *)

Alphabet == SpecialChars \cup {Backslash, "a"}

Texts == SeqsUpTo(Alphabet, MaxLen)

InitEscape ==
    /\ arg \in Texts
    /\ res = NoneVal
    /\ pc = "escape_in"
    /\ cfg = NoneVal
    /\ to_escape = NoneVal
    /\ df = NoDf
    /\ k = 0
    /\ loc = EmptyLoc
    /\ out = <<>>

\* escape(text)
EscapeOnce ==
    /\ pc = "escape_in"
    /\ res' = [once |-> escape(arg, TRUE), twice |-> <<>>]
    /\ pc' = "escape_once"
    /\ UNCHANGED <<cfg, to_escape, df, k, loc, out, arg>>

\* escape(escape(text))
EscapeTwice ==
    /\ pc = "escape_once"
    /\ res' = [res EXCEPT !.twice = escape(res.once, TRUE)]
    /\ pc' = "escape_twice"
    /\ UNCHANGED <<cfg, to_escape, df, k, loc, out, arg>>

\* escape(text, go=False)
EscapeInactive ==
    /\ pc = "escape_in"
    /\ res' = [once |-> escape(arg, FALSE), twice |-> <<>>]
    /\ pc' = "escape_off"
    /\ UNCHANGED <<cfg, to_escape, df, k, loc, out, arg>>

NextEscape ==
    \/ EscapeOnce
    \/ EscapeTwice
    \/ EscapeInactive

SpecEscape == InitEscape /\ [][NextEscape]_vars

----------------------------------------------------------------------------
(* _colspec() on its own: every coltype, column count and set of clines.   *)

ColspecInputs ==
    [coltype : {[isstr |-> s, toks |-> t] :
                    s \in BOOLEAN, t \in SeqsUpTo({"l", "c", "r"}, MaxCols + 2)},
     n_cols : 0..MaxCols,
     clines : SUBSET (0..(MaxCols + 1))]

InitColspec ==
    /\ arg \in ColspecInputs
    /\ res = NoneVal
    /\ pc = "colspec_in"
    /\ cfg = NoneVal
    /\ to_escape = NoneVal
    /\ df = NoDf
    /\ k = 0
    /\ loc = EmptyLoc
    /\ out = <<>>

\* self._colspec(df)
BuildColspec ==
    /\ pc = "colspec_in"
    /\ res' = colspec(arg.coltype, arg.clines, arg.n_cols)
    /\ pc' = "colspec_out"
    /\ UNCHANGED <<cfg, to_escape, df, k, loc, out, arg>>

NextColspec == BuildColspec

SpecColspec == InitColspec /\ [][NextColspec]_vars

----------------------------------------------------------------------------
(* Claims about escape(), checked under SpecEscape.                        *)

\* position i of t holds one of the seven characters with no backslash
\* right before it
Unprotected(t, i) ==
    /\ t[i] \in {"#", "$", "%", "&", "_", "{", "}"}
    /\ (i = 1 \/ t[i - 1] # "\\")

\* where character i of t stands in the escaped text
NewPos(t, i) == i + Cardinality({j \in 1..i : Unprotected(t, j)})

\* C8: escape(text) with escaping active keeps every character in place,
\* puts exactly one backslash in front of each of # $ % & _ { } that has no
\* backslash right before it, leaves the ones that have one unchanged, and
\* is idempotent: escape(escape(t)) = escape(t).
C8_EscapeNeverDoubleEscapes ==
    /\ pc \in {"escape_once", "escape_twice"} =>
          /\ Len(res.once) =
                Len(arg) + Cardinality({j \in 1..Len(arg) : Unprotected(arg, j)})
          /\ \A i \in 1..Len(arg) :
                /\ res.once[NewPos(arg, i)] = arg[i]
                /\ Unprotected(arg, i) => res.once[NewPos(arg, i) - 1] = "\\"
    /\ pc = "escape_twice" => res.twice = res.once

\* \__ has been escaped twice: the escaped _ is kept, the bare one escaped once
C8_Witness ==
    /\ pc = "escape_twice"
    /\ arg = <<"\\", "_", "_">>
    /\ res.once = <<"\\", "_", "\\", "_">>
    /\ res.twice = res.once

----------------------------------------------------------------------------
(* Claims about _colspec(), checked under SpecColspec.                     *)

\* the coltype is the 2-character compact form
Compact(coltype) == coltype.isstr /\ Len(coltype.toks) = 2

\* the type token of position p (0 is the index column)
TypeToken(coltype, p) ==
    IF Compact(coltype)
    THEN (IF p = 0 THEN coltype.toks[1] ELSE coltype.toks[2])
    ELSE coltype.toks[p + 1]

\* C6: for a coltype that is not the 2-character compact form (a list or
\* tuple of tokens, or a string of one-character tokens), _colspec succeeds
\* only when the coltype has exactly C+1 tokens and raises for every other
\* length.
C6_ExplicitLengthChecked ==
    (pc = "colspec_out" /\ ~Compact(arg.coltype)) =>
        (res.raised <=> Len(arg.coltype.toks) # arg.n_cols + 1)

\* C7: for a valid coltype the spec is, in position order 0..C, the C+1 type
\* tokens, the token of position p preceded by exactly one '|' if and only
\* if p is in clines; a position outside 0..C adds nothing.
C7_ColspecPlacesRules ==
    (/\ pc = "colspec_out"
     /\ (Compact(arg.coltype) \/ Len(arg.coltype.toks) = arg.n_cols + 1)) =>
        /\ ~res.raised
        /\ Len(res.pieces) = arg.n_cols + 1
        /\ \A p \in 0..arg.n_cols :
              res.pieces[p + 1] =
                  IF p \in arg.clines
                  THEN "|" \o TypeToken(arg.coltype, p)
                  ELSE TypeToken(arg.coltype, p)
        /\ Len(Str(res.pieces)) =
              arg.n_cols + 1 + Cardinality(arg.clines \cap (0..arg.n_cols))

\* coltype='rcl', clines={2, 3} on two data columns gives rc|l
C7_Witness ==
    /\ pc = "colspec_out"
    /\ arg = [coltype |-> StrCol(<<"r", "c", "l">>), n_cols |-> 2,
              clines |-> {2, 3}]
    /\ ~res.raised
    /\ Str(res.pieces) = "rc|l"

----------------------------------------------------------------------------
(* Claims about format(), checked under Spec.                              *)

\* every line of the pass has been handed to the caller
AllEmitted == pc \in {"blank", "done"}

\* l is the default header line of d, whatever is escaped
IsHeaderLineOf(l, d) ==
    \E gn \in BOOLEAN, gc \in BOOLEAN :
        l = line(<<escape(d.name, gn)>> \o
                 [j \in 1..Len(d.columns) |-> escape(d.columns[j], gc)])

\* l is the default row line of row i of d, whatever is escaped
IsRowLineOf(l, d, i) ==
    \E gi \in BOOLEAN, g \in [1..Len(d.columns) -> BOOLEAN] :
        l = line(<<escape(d.index[i], gi)>> \o
                 [j \in 1..Len(d.columns) |-> escape(d.cells[i][j], g[j])])

\* the lines of a simple environment with the default callbacks
SimpleLayout(o, c, d) ==
    LET P == Lines(c.preamble)
        B == Lines(c.before_header)
        R == Len(d.index)
        a == Len(P) + 1 + Len(B)
    IN  /\ Len(o) = a + 3 + R + 3
        /\ SubSeq(o, 1, Len(P)) = P
        /\ o[Len(P) + 1] =
              "\\begin{" \o c.env \o "}{"
                  \o Str(colspec(c.coltype, c.clines, Len(d.columns)).pieces)
                  \o "}"
        /\ SubSeq(o, Len(P) + 2, a) = B
        /\ o[a + 1] = rule(c.booktabs, "top")
        /\ IsHeaderLineOf(o[a + 2], d)
        /\ o[a + 3] = rule(c.booktabs, "mid")
        /\ \A i \in 1..R : IsRowLineOf(o[a + 3 + i], d, i)
        /\ o[a + 3 + R + 1] = rule(c.booktabs, "bottom")
        /\ o[a + 3 + R + 2] = "\\end{" \o c.env \o "}"
        /\ o[a + 3 + R + 3] = ""

\* C1: for the simple environment with the default callbacks, a fully
\* consumed pass over a dataset of R rows emits exactly: the preamble lines,
\* the environment-open line, the before_header lines, the top rule, one
\* header line, the middle rule, R row lines in row order, the bottom rule,
\* the environment-close line and one empty line, the last item.
C1_SimpleLineSequence ==
    (AllEmitted /\ cfg.env # "longtable" /\ cfg.header = "default") =>
        SimpleLayout(out, cfg, df)

\* a finished tabular pass over two rows, with preamble and before_header
C1_Witness ==
    /\ pc = "done"
    /\ cfg.env = "tabular"
    /\ cfg.header = "default"
    /\ Len(df.index) = 2
    /\ Lines(cfg.preamble) # <<>>
    /\ Lines(cfg.before_header) # <<>>
    /\ Len(out) = 12

\* the indices of o that hold the line l
At(o, l) == {i \in 1..Len(o) : o[i] = l}

\* the lines of a longtable
LongtableLayout(o, c, d) ==
    LET P == Lines(c.preamble)
        B == Lines(c.before_header)
        Q == Lines(c.before_repeat_header)
        R == Len(d.index)
        a == Len(P) + 1 + Len(B)
        i1 == CHOOSE i \in At(o, "\\endfirsthead") : TRUE
        i2 == CHOOSE i \in At(o, "\\endhead") : TRUE
        i3 == CHOOSE i \in At(o, "\\endfoot") : TRUE
        H1 == SubSeq(o, a + 2, i1 - 2)
        H2 == SubSeq(o, i1 + Len(Q) + 2, i2 - 2)
    IN  /\ Cardinality(At(o, "\\endfirsthead")) = 1
        /\ Cardinality(At(o, "\\endhead")) = 1
        /\ Cardinality(At(o, "\\endfoot")) = 1
        /\ a + 2 < i1 /\ i1 < i2 /\ i2 < i3
        \* the header, once in the first head and once in the repeated head
        /\ o[a + 1] = rule(c.booktabs, "top")
        /\ o[i1 - 1] = rule(c.booktabs, "mid")
        /\ o[i1 + Len(Q) + 1] = rule(c.booktabs, "top")
        /\ o[i2 - 1] = rule(c.booktabs, "mid")
        /\ Len(H1) >= 1
        /\ H1 = H2
        \* the one bottom rule, in the foot
        /\ i3 = i2 + 2
        /\ o[i2 + 1] = rule(c.booktabs, "bottom")
        \* then the rows and the end of the environment, no rule between
        /\ Len(o) = i3 + R + 2
        /\ \A i \in 1..R : IsRowLineOf(o[i3 + i], d, i)
        /\ o[i3 + R + 1] = "\\end{" \o c.env \o "}"
        /\ c.booktabs => At(o, "\\bottomrule") = {i2 + 1}

\* C2: a fully consumed longtable pass emits the header line(s) twice, once
\* before \endfirsthead and once between \endfirsthead and \endhead, with
\* the same text, and exactly one bottom rule, between \endhead and
\* \endfoot and before every row, none between the last row and \end.
C2_LongtableHeaderTwiceOneBottomRule ==
    (AllEmitted /\ cfg.env = "longtable") => LongtableLayout(out, cfg, df)

\* a finished longtable pass over two rows with a two-line header
C2_Witness ==
    /\ pc = "done"
    /\ cfg.env = "longtable"
    /\ cfg.booktabs
    /\ cfg.header = "two_lines"
    /\ Len(df.index) = 2
    /\ Cardinality(At(out, "\\cmidrule{2-3}")) = 2

\* the generator has run self._header(df), so every escaping decision of
\* the pass is taken from _to_escape
PastResolution == pc \in InFlight \ {"start", "preamble", "begin", "before_header"}

\* C3: _to_escape is cleared whenever a pass ends (consumed to the end,
\* abandoned early, or ended by an error), so the escaping decisions of each
\* pass are those of the current selector resolved against the columns of
\* the dataset of that pass.
C3_CacheClearedWhenPassEnds ==
    /\ pc \in {"done", "closed", "raised"} => to_escape = NoneVal
    /\ PastResolution =>
          /\ ~Resolve(cfg.escape, df.columns).raised
          /\ to_escape = Resolve(cfg.escape, df.columns).set

\* the selector is a region marker, or a collection of region markers and
\* column labels of d
PlainSelector(sel, d) ==
    /\ sel.flags \subseteq {NAME, INDEX, COLUMNS, CELLS, ALL}
    /\ sel.names \subseteq Range(d.columns)

\* the region's own marker or ALL is in the selector
RegionSelected(sel, region) == region \in sel.flags \/ ALL \in sel.flags

\* the cells of the column are to be escaped
ColumnSelected(sel, label) ==
    IF sel.names # {} THEN label \in sel.names
    ELSE CELLS \in sel.flags \/ ALL \in sel.flags

\* C4: for a selector of region markers and column labels of the dataset,
\* NAME, INDEX and COLUMNS are escaped exactly when their marker or ALL is in
\* the selector, and the cells of a column exactly when the column is named,
\* or no column is named and CELLS or ALL is in the selector.
C4_EscapedExactlyAsSelected ==
    PlainSelector(cfg.escape, df) =>
        /\ (pc = "header" /\ k = 1 /\ cfg.header = "default") =>
              out[Len(out)] =
                  line(<<escape(df.name, RegionSelected(cfg.escape, NAME))>> \o
                       [j \in 1..Len(df.columns) |->
                           escape(df.columns[j],
                                  RegionSelected(cfg.escape, COLUMNS))])
        /\ pc = "row" =>
              out[Len(out)] =
                  line(<<escape(df.index[k], RegionSelected(cfg.escape, INDEX))>> \o
                       [j \in 1..Len(df.columns) |->
                           escape(df.cells[k][j],
                                  ColumnSelected(cfg.escape, df.columns[j]))])

\* C5: a selector with an item that is neither a region marker nor a column
\* label of the dataset makes the pass fail with ValueError before the
\* environment-close line.
C5_UnknownTargetRaises ==
    (\E e \in cfg.escape.names : e \notin Range(df.columns)) =>
        pc \notin {"end", "blank"}

\* C9: what no_escape lists is not escaped: a region whose marker is in
\* no_escape, the cells of a column whose label is in no_escape.
C9_NoEscapeSubtracted ==
    /\ (/\ pc = "header" /\ k = 1 /\ cfg.header = "default"
        /\ COLUMNS \in cfg.no_escape.flags) =>
          \E gn \in BOOLEAN :
              out[Len(out)] = line(<<escape(df.name, gn)>> \o df.columns)
    /\ pc = "row" =>
          \E gi \in BOOLEAN, g \in [1..Len(df.columns) -> BOOLEAN] :
              /\ \A j \in 1..Len(df.columns) :
                    df.columns[j] \in cfg.no_escape.names => ~g[j]
              /\ out[Len(out)] =
                    line(<<escape(df.index[k], gi)>> \o
                         [j \in 1..Len(df.columns) |->
                             escape(df.cells[k][j], g[j])])

\* C10: with an explicit coltype of the wrong length the error comes at the
\* request for the first item: no line is produced before it.
C10_NoLineBeforeColtypeError ==
    (/\ pc = "raised"
     /\ ~cfg.coltype.isstr
     /\ Len(cfg.coltype.toks) # Len(df.columns) + 1) =>
        out = <<>>

============================================================================
